---------------------------- MODULE Spec2Model ----------------------------
(***************************************************************************)
(* The aqua bootstrap installer (aquaproj/aqua-installer.ts).              *)
(*                                                                         *)
(* Two implementations of install() exist: the Node/GitHub-Actions one     *)
(* (src/main.ts, "node") and the Deno one (src/unnamed/part_000, "deno").  *)
(* A run of install() is modelled stage by stage; every await of the code  *)
(* is one action.  File-system paths are sequences of segments from the    *)
(* root, digests are strings (or, for verifyChecksum alone, sequences of   *)
(* hex characters computed from bytes).                                    *)
(***************************************************************************)
EXTENDS Integers, Sequences, FiniteSets, TLC

(***************************************************************************)
(* Bounds of the model.                                                    *)
(***************************************************************************)
\* Number of bytes of a digest in the verifyChecksum specification.
DigestBytes == 1

\* Two install() calls, made one after the other by a caller that awaits
\* each: the second copy is what the claims relating two runs are stated on.
Runs == {1, 2}
Impls == {"node", "deno"}

(***************************************************************************)
(* Static data of the program.                                             *)
(***************************************************************************)
BOOTSTRAP_VERSION == "v2.55.1"

CHECKSUMS ==
  [k \in {"aqua_darwin_amd64.tar.gz", "aqua_darwin_arm64.tar.gz",
          "aqua_linux_amd64.tar.gz", "aqua_linux_arm64.tar.gz",
          "aqua_windows_amd64.zip", "aqua_windows_arm64.zip"} |->
     CASE k = "aqua_darwin_amd64.tar.gz" ->
            "814bd2ba3b1db409e89eae126ad280413e4edfefe91f598ce173c3b21ba56ca8"
       [] k = "aqua_darwin_arm64.tar.gz" ->
            "cdaa13dd96187622ef5bee52867c46d4cf10765963423dc8e867c7c4decccf4d"
       [] k = "aqua_linux_amd64.tar.gz" ->
            "7371b9785e07c429608a21e4d5b17dafe6780dabe306ec9f4be842ea754de48a"
       [] k = "aqua_linux_arm64.tar.gz" ->
            "283e0e274af47ff1d4d660a19e8084ae4b6aca23d901e95728a68a63dfb98c87"
       [] k = "aqua_windows_amd64.zip" ->
            "3efa0eaecd4f252f9dcf0d3b723e77894657977dc91939aac7697380a3f476a1"
       [] k = "aqua_windows_arm64.zip" ->
            "faf478d4db6e873ed85365e6864af31bf831317a1736b4ca7f3cf561e3a463ec"]

\* CHECKSUMS.get(filename): "" stands for undefined (both are falsy).
ChecksumsGet(filename) ==
  IF filename \in DOMAIN CHECKSUMS THEN CHECKSUMS[filename] ELSE ""

(***************************************************************************)
(* The host.  A machine is an (operating system, CPU) pair; each runtime   *)
(* reports it under its own names (node: platform()/arch(), deno:          *)
(* Deno.build.os/Deno.build.arch).                                         *)
(***************************************************************************)
HostOSs == {"macos", "linux", "windows", "freebsd"}
HostArchs == {"x86_64", "arm64", "riscv64"}

RuntimeOS(impl, h) ==
  CASE h = "macos" -> "darwin"
    [] h = "windows" -> IF impl = "node" THEN "win32" ELSE "windows"
    [] OTHER -> h

RuntimeArch(impl, a) ==
  CASE a = "x86_64" -> IF impl = "node" THEN "x64" ELSE "x86_64"
    [] a = "arm64" -> IF impl = "node" THEN "arm64" ELSE "aarch64"
    [] OTHER -> a

\* A getOS whose default branch returns the runtime's name.
getOSNoDefault(impl, h) ==
  LET os == RuntimeOS(impl, h) IN
  IF os = (IF impl = "node" THEN "win32" ELSE "windows") THEN "windows"
  ELSE os

\* getOS(): the canonical os name, or "" when the switch falls to its default
\* branch and throws.
getOS(impl, h) ==
  LET os == RuntimeOS(impl, h) IN
  CASE os = "darwin" -> "darwin"
    [] os = "linux" -> "linux"
    [] os = (IF impl = "node" THEN "win32" ELSE "windows") -> "windows"
    [] OTHER -> ""

\* getArch(): the canonical architecture name, or "" when it throws.
getArch(impl, a) ==
  LET architecture == RuntimeArch(impl, a) IN
  CASE architecture = (IF impl = "node" THEN "x64" ELSE "x86_64") -> "amd64"
    [] architecture = (IF impl = "node" THEN "arm64" ELSE "aarch64") -> "arm64"
    [] OTHER -> ""

(***************************************************************************)
(* Paths.  join() of node:path / @std/path concatenates and normalises:    *)
(* "." is dropped and ".." removes the segment before it (at the root it   *)
(* is dropped).                                                            *)
(***************************************************************************)
RECURSIVE Normalize(_, _)
Normalize(acc, segs) ==
  IF segs = << >> THEN acc
  ELSE LET s == Head(segs) IN
       IF s = "." THEN Normalize(acc, Tail(segs))
       ELSE IF s = ".."
            THEN Normalize(IF acc = << >> THEN acc
                           ELSE SubSeq(acc, 1, Len(acc) - 1), Tail(segs))
            ELSE Normalize(Append(acc, s), Tail(segs))

join(base, segs) == Normalize(<< >>, base \o segs)

\* p is d itself or lies below it.
IsPrefix(d, p) == Len(d) <= Len(p) /\ SubSeq(p, 1, Len(d)) = d
Inside(d, p) == IsPrefix(d, p) /\ p # d
Parent(p) == SubSeq(p, 1, Len(p) - 1)

\* The environment: << >> is an unset (or empty) variable.  HomeDir is the
\* home directory of the user.
HomeDir == <<"home", "u">>
Envs ==
  [AQUA_ROOT_DIR : {<< >>, <<"opt", "aqua">>},
   XDG_DATA_HOME : {<< >>},
   HOME : {HomeDir}]

\* homedir() of node:os; Deno.env.get("HOME") || "" in the deno implementation.
homedir(impl, e) == IF impl = "node" THEN HomeDir ELSE e.HOME

getInstallPath(impl, os, e) ==
  LET aquaRoot == e.AQUA_ROOT_DIR IN
  IF os = "windows"
  THEN LET base == IF aquaRoot # << >> THEN aquaRoot
                   ELSE join(homedir(impl, e),
                             <<"AppData", "Local", "aquaproj-aqua">>)
       IN join(base, <<"bin", "aqua.exe">>)
  ELSE LET xdgDataHome == IF e.XDG_DATA_HOME # << >> THEN e.XDG_DATA_HOME
                          ELSE join(homedir(impl, e), <<".local", "share">>)
           base == IF aquaRoot # << >> THEN aquaRoot
                   ELSE join(xdgDataHome, <<"aquaproj-aqua">>)
       IN join(base, <<"bin", "aqua">>)

(***************************************************************************)
(* The artifact locator: the part of install() before the workspace.       *)
(***************************************************************************)
\* An extension that forgets the windows case.
ExtTarOnly(os) == "tar.gz"

Ext(os) == IF os = "windows" THEN "zip" ELSE "tar.gz"
Filename(os, arch) == "aqua_" \o os \o "_" \o arch \o "." \o Ext(os)
Url(filename) ==
  "https://github.com/aquaproj/aqua/releases/download/"
    \o BOOTSTRAP_VERSION \o "/" \o filename


\* A locator whose url takes the release from the caller's version.
LocateFromOptions(os, arch, options) ==
  LET filename == Filename(os, arch) IN
  [filename |-> filename,
   url |-> IF options.version = "" THEN Url(filename)
           ELSE "https://github.com/aquaproj/aqua/releases/download/"
                  \o options.version \o "/" \o filename,
   expectedChecksum |-> ChecksumsGet(filename)]

\* Lines 133-142 of install(): filename, url and the pinned digest.  options
\* is the argument of install(); the locator does not read it.
Locate(os, arch, options) ==
  LET filename == Filename(os, arch) IN
  [filename |-> filename,
   url |-> Url(filename),
   expectedChecksum |-> ChecksumsGet(filename)]

(***************************************************************************)
(* Archives.  An entry has a name (the segments of its path in the         *)
(* archive) and a type.  What the release host serves is a content: an     *)
(* archive and the SHA-256 hex digest of its bytes.                        *)
(***************************************************************************)
BinaryName(isWindows) == IF isWindows THEN "aqua.exe" ELSE "aqua"

ArchiveNames == {"genuine", "nobinary", "traversal", "innerdots"}

Entries(a, isWindows) ==
  LET bin == BinaryName(isWindows) IN
  CASE a = "genuine" ->
         << [name |-> <<"LICENSE">>, type |-> "file"],
            [name |-> <<bin>>, type |-> "file"] >>
    [] a = "nobinary" ->
         << [name |-> <<"docs">>, type |-> "directory"],
            [name |-> <<"LICENSE">>, type |-> "file"] >>
    [] a = "traversal" ->
         << [name |-> <<bin>>, type |-> "file"],
            [name |-> <<"..", "..", "etc", "passwd">>, type |-> "file"] >>
    [] OTHER ->
         << [name |-> <<"docs", "..", bin>>, type |-> "file"] >>

\* A digest that is not in the table.
TamperedDigest ==
  "0000000000000000000000000000000000000000000000000000000000000000"

NoContent == [archive |-> "", digest |-> ""]
\* Every archive under the pinned digest, and one under another digest.
Contents(expected) ==
  [archive : ArchiveNames, digest : {expected}]
    \cup {[archive |-> "traversal", digest |-> TamperedDigest]}

(***************************************************************************)
(* verifyChecksum.                                                         *)
(***************************************************************************)
HexDigits ==
  <<"0", "1", "2", "3", "4", "5", "6", "7",
    "8", "9", "a", "b", "c", "d", "e", "f">>

\* b.toString(16).padStart(2, "0") (deno); hash.digest("hex") gives the same.
HexOfByte(b) == << HexDigits[(b \div 16) + 1], HexDigits[(b % 16) + 1] >>

RECURSIVE HexOf(_)
HexOf(bytes) ==
  IF bytes = << >> THEN << >>
  ELSE HexOfByte(Head(bytes)) \o HexOf(Tail(bytes))

\* A verifyChecksum that never throws.
ChecksumNotCompared(hashHex, expectedChecksum) == TRUE

\* The test of verifyChecksum: TRUE when it returns, FALSE when it throws.
ChecksumMatches(hashHex, expectedChecksum) == hashHex = expectedChecksum

(***************************************************************************)
(* Extraction.  Each extractor maps the file system and an archive to the  *)
(* new file system, the paths it wrote and whether it returned (ok) or     *)
(* threw.                                                                  *)
(***************************************************************************)
\* Deno.open(destPath, {write: true, create: true}) succeeds when the parent
\* directory exists.
CanCreate(files, p) == p # << >> /\ Parent(p) \in files

\* extractTarGz of the deno implementation: regular files only, each written
\* at join(destDir, entry.fileName); the first failing open ends the loop.
RECURSIVE extractTarGz(_, _, _, _)
extractTarGz(files, written, destDir, entries) ==
  IF entries = << >> THEN [fs |-> files, wrote |-> written, ok |-> TRUE]
  ELSE LET entry == Head(entries)
           destPath == join(destDir, entry.name)
       IN IF entry.type # "file"
          THEN extractTarGz(files, written, destDir, Tail(entries))
          ELSE IF ~CanCreate(files, destPath)
               THEN [fs |-> files, wrote |-> written, ok |-> FALSE]
               ELSE extractTarGz(files \cup {destPath},
                                 written \cup {destPath},
                                 destDir, Tail(entries))

HasDotDot(name) == \E i \in 1..Len(name) : name[i] = ".."

\* tc.extractTar: the system tar.  A member whose name contains ".." is not
\* extracted and tar exits non-zero; directories are created.
RECURSIVE SystemTar(_, _, _, _, _)
SystemTar(files, written, destDir, entries, good) ==
  IF entries = << >> THEN [fs |-> files, wrote |-> written, ok |-> good]
  ELSE LET entry == Head(entries)
           destPath == destDir \o entry.name
       IN IF HasDotDot(entry.name)
          THEN SystemTar(files, written, destDir, Tail(entries), FALSE)
          ELSE SystemTar(files \cup {destPath},
                         written \cup {destPath},
                         destDir, Tail(entries), good)

\* tc.extractZip and unzip -q: ".." components of a member name are dropped,
\* the member is written below destDir.
RECURSIVE SystemUnzip(_, _, _, _)
SystemUnzip(files, written, destDir, entries) ==
  IF entries = << >> THEN [fs |-> files, wrote |-> written, ok |-> TRUE]
  ELSE LET entry == Head(entries)
           kept == SelectSeq(entry.name, LAMBDA s : s # "..")
           destPath == destDir \o kept
       IN SystemUnzip(files \cup {destPath}, written \cup {destPath},
                      destDir, Tail(entries))

\* extractArchive (node) and the isWindows branch of install() (deno).
extractArchive(impl, files, archivePath, destDir, isWindows, entries) ==
  IF isWindows
  THEN SystemUnzip(files, {}, destDir, entries)
  ELSE IF impl = "node"
       THEN SystemTar(files, {}, destDir, entries, TRUE)
       ELSE extractTarGz(files, {}, destDir, entries)

\* rm(tempDir, {recursive: true}) when it succeeds.
RemoveTree(files, dir) == {p \in files : ~IsPrefix(dir, p)}

\* The arguments of the self-update invocation.
UpdateArgs(version) ==
  IF version # "" THEN <<"update-aqua", version>> ELSE <<"update-aqua">>

(***************************************************************************)
(* State.                                                                  *)
(***************************************************************************)
VARIABLES
  hostOS,     \* the operating system of the machine
  hostArch,   \* its CPU
  env,        \* the process environment
  fs,         \* the paths that exist (files and directories)
  run,        \* run[r]: the locals and the progress of the r-th install()
  vHash,      \* verifyChecksum alone: the SHA-256 bytes of the file
  vExpected,  \* verifyChecksum alone: the expected digest, hex characters
  vOutcome,   \* verifyChecksum alone: "none", "ok" or "ChecksumMismatch"
  pth,        \* getInstallPath alone: its arguments and what it returned
  act         \* action() / run(): the inputs, the position, what was called

vars == <<hostOS, hostArch, env, fs, run, vHash, vExpected, vOutcome,
          pth, act>>

\* The versions a caller passes as options.version ("" is none).
Versions == {"", "v2.30.0"}

\* mkdtemp, Deno.makeTempDir and tc.downloadTool draw a random name that is
\* not in use.  Names are interchangeable, so the draw is the first unused
\* name of a pool with one name per install() call.
RandomNames == <<"Xa1", "Xb2">>

tmpdir == <<"tmp">>
RunnerTemp == <<"runner_temp">>
InitialFs ==
  {<< >>, tmpdir, RunnerTemp, <<"etc">>, <<"etc", "passwd">>}

Mode0755 == 493

IdleRun ==
  [pc |-> "idle", impl |-> "", version |-> "", os |-> "", arch |-> "",
   installPath |-> << >>, filename |-> "", url |-> "",
   expectedChecksum |-> "", tempDir |-> << >>, downloadPath |-> << >>,
   content |-> NoContent, aquaBinaryPath |-> << >>, mode |-> 0,
   updateTarget |-> << >>, updateArgs |-> << >>, versionTarget |-> << >>,
   updateExit |-> "", versionExit |-> "", rmExit |-> "",
   reported |-> << >>, wrote |-> {}, extracted |-> {}, calls |-> << >>,
   pending |-> "", result |-> ""]

\* getInstallPath before it is called.
IdlePath == [impl |-> "", os |-> "", path |-> << >>]

\* action() / run() before the call.
IdleAct ==
  [pc |-> "idle", variant |-> "", version |-> "", skipInstallAqua |-> FALSE,
   policyAllow |-> "", enableAquaInstall |-> "", binPath |-> << >>,
   log |-> << >>, probeExit |-> "", policyArgs |-> << >>,
   policyExit |-> "", installExit |-> "", result |-> "", error |-> ""]

Init ==
  /\ hostOS \in HostOSs
  /\ hostArch \in HostArchs
  /\ env \in Envs
  /\ fs = InitialFs
  /\ run = [r \in Runs |-> IdleRun]
  /\ vHash = << >>
  /\ vExpected = << >>
  /\ vOutcome = "idle"
  /\ pth = IdlePath
  /\ act = IdleAct

Outcomes == {"ok", "fail"}
ExitOutcomes == {"ok", "nonzero", "spawnfail"}

\* An error thrown inside the try block: the finally block runs next.
Throw(r, err, call) ==
  [run[r] EXCEPT !.pc = "cleanup", !.pending = err,
                 !.calls = Append(@, call)]

(***************************************************************************)
(* install(), lines 128-142 (node) and 153-167 (deno): platform, install   *)
(* path, artifact.  Callers await one install() before the next.           *)
(***************************************************************************)
\* The locals of implementation i's install({version: v}) when it reaches
\* the workspace creation, or when it has thrown before it.
Resolved(r, i, v) ==
  LET os == getOS(i, hostOS)
      arch == getArch(i, hostArch)
      loc == Locate(os, arch, [version |-> v])
      base == [run[r] EXCEPT !.impl = i, !.version = v]
  IN IF os = ""
     THEN [base EXCEPT !.pc = "done", !.result = "UnsupportedPlatform"]
     ELSE IF arch = ""
     THEN [base EXCEPT !.pc = "done", !.os = os,
                       !.result = "UnsupportedPlatform"]
     ELSE IF loc.expectedChecksum = ""
     THEN [base EXCEPT !.pc = "done", !.os = os, !.arch = arch,
                       !.installPath = getInstallPath(i, os, env),
                       !.filename = loc.filename, !.url = loc.url,
                       !.result = "NoChecksum"]
     ELSE [base EXCEPT !.pc = "mktemp", !.os = os, !.arch = arch,
                       !.installPath = getInstallPath(i, os, env),
                       !.filename = loc.filename, !.url = loc.url,
                       !.expectedChecksum = loc.expectedChecksum]

\* A call of install() by a caller that does not wait for another call.
Start(r) ==
  /\ run[r].pc = "idle"
  /\ \E i \in Impls, v \in Versions :
       run' = [run EXCEPT ![r] = Resolved(r, i, v)]
  /\ UNCHANGED <<hostOS, hostArch, env, fs, vHash, vExpected, vOutcome,
               pth, act>>

\* A call of install() by a caller that awaits one call before the next.
Resolve(r) ==
  /\ \A q \in Runs : q < r => run[q].pc = "done"
  /\ Start(r)

\* mkdtempSync(join(tmpdir(), "aqua-")) / Deno.makeTempDir(): a directory
\* that did not exist; a failure is thrown before the try block.
TempDirPrefix(impl) == IF impl = "node" THEN "aqua-" ELSE ""

\* The names of the pool, with their prefix, that are unused in dir.
Unused(files, dir, prefix) ==
  {i \in 1..Len(RandomNames) :
     join(dir, <<prefix \o RandomNames[i]>>) \notin files}

\* A name that is not drawn: always the first of the pool.
FirstName(files, dir, prefix) == prefix \o RandomNames[1]

FreshName(files, dir, prefix) ==
  LET free == Unused(files, dir, prefix)
  IN prefix \o RandomNames[CHOOSE i \in free : \A j \in free : i <= j]

MakeTempDir(r) ==
  /\ run[r].pc = "mktemp"
  /\ \/ LET d == join(tmpdir,
                        <<FreshName(fs, tmpdir, TempDirPrefix(run[r].impl))>>)
          IN
          /\ Unused(fs, tmpdir, TempDirPrefix(run[r].impl)) # {}
          /\ fs' = fs \cup {d}
          /\ run' = [run EXCEPT ![r].pc = "download", ![r].tempDir = d,
                                ![r].calls = Append(@, "mkdtemp")]
     \/ /\ run' = [run EXCEPT ![r].pc = "done",
                              ![r].result = "MkdtempFailed",
                              ![r].calls = Append(@, "mkdtemp")]
        /\ fs' = fs
  /\ UNCHANGED <<hostOS, hostArch, env, vHash, vExpected, vOutcome,
               pth, act>>

\* Where the archive is downloaded to.  node: downloadFile(url) hands no
\* destination to tc.downloadTool, which writes a randomly named file of the
\* runner's temporary directory.  deno: join(tempDir, filename).
DownloadDest(impl, tempDir, filename, n) ==
  IF impl = "node" THEN join(RunnerTemp, <<n>>)
  ELSE join(tempDir, <<filename>>)

\* downloadFile: the whole body is written to the destination, or it throws
\* (a non-success status, a network error).
Download(r) ==
  /\ run[r].pc = "download"
  /\ \/ \E c \in Contents(run[r].expectedChecksum) :
          LET n == FreshName(fs, RunnerTemp, "")
              dest == DownloadDest(run[r].impl, run[r].tempDir,
                                   run[r].filename, n) IN
          /\ dest \notin fs
          /\ fs' = fs \cup {dest}
          /\ run' = [run EXCEPT ![r].pc = "verify",
                                ![r].downloadPath = dest,
                                ![r].content = c,
                                ![r].wrote = @ \cup {dest},
                                ![r].calls = Append(@, "download")]
     \/ /\ run' = [run EXCEPT ![r] = Throw(r, "DownloadFailed", "download")]
        /\ fs' = fs
  /\ UNCHANGED <<hostOS, hostArch, env, vHash, vExpected, vOutcome,
               pth, act>>

\* verifyChecksum(downloadPath, expectedChecksum).
Verify(r) ==
  /\ run[r].pc = "verify"
  /\ run' = [run EXCEPT ![r] =
       IF run[r].downloadPath \notin fs
       THEN Throw(r, "ReadFailed", "verify")
       ELSE IF ChecksumMatches(run[r].content.digest,
                               run[r].expectedChecksum)
       THEN [run[r] EXCEPT !.pc = "extract", !.calls = Append(@, "verify")]
       ELSE Throw(r, "ChecksumMismatch", "verify")]
  /\ UNCHANGED <<hostOS, hostArch, env, fs, vHash, vExpected, vOutcome,
               pth, act>>

\* Extraction into tempDir; the extractor itself may fail (a corrupt stream,
\* no unzip on the machine).
Extract(r) ==
  /\ run[r].pc = "extract"
  /\ LET isWindows == run[r].os = "windows"
         res == extractArchive(run[r].impl, fs, run[r].downloadPath,
                               run[r].tempDir, isWindows,
                               Entries(run[r].content.archive, isWindows))
     IN \/ /\ fs' = res.fs
           /\ run' = [run EXCEPT ![r] =
                IF res.ok
                THEN [run[r] EXCEPT
                        !.pc = "chmod",
                        !.wrote = @ \cup res.wrote,
                        !.extracted = res.wrote,
                        !.aquaBinaryPath =
                           join(run[r].tempDir, <<BinaryName(isWindows)>>),
                        !.calls = Append(@, "extract")]
                ELSE [Throw(r, "ExtractionFailed", "extract") EXCEPT
                        !.wrote = @ \cup res.wrote,
                        !.extracted = res.wrote]]
        \/ /\ fs' = fs
           /\ run' = [run EXCEPT ![r] =
                        Throw(r, "ExtractionFailed", "extract")]
  /\ UNCHANGED <<hostOS, hostArch, env, vHash, vExpected, vOutcome,
               pth, act>>

\* A chmod that is skipped, without an error, when the binary is not there.
ChmodSkippedWhenMissing(r) ==
  /\ run[r].pc = "chmod"
  /\ \E o \in Outcomes :
       run' = [run EXCEPT ![r] =
         IF run[r].aquaBinaryPath \notin fs
         THEN [run[r] EXCEPT !.pc = "update", !.calls = Append(@, "chmod")]
         ELSE IF o = "ok"
         THEN [run[r] EXCEPT !.pc = "update", !.mode = Mode0755,
                             !.calls = Append(@, "chmod")]
         ELSE Throw(r, "PermissionSetFailed", "chmod")]
  /\ UNCHANGED <<hostOS, hostArch, env, fs, vHash, vExpected, vOutcome,
               pth, act>>

\* chmod(aquaBinaryPath, 0o755): throws when the file does not exist or the
\* mode cannot be set.
Chmod(r) ==
  /\ run[r].pc = "chmod"
  /\ \E o \in Outcomes :
       run' = [run EXCEPT ![r] =
         IF run[r].aquaBinaryPath \in fs /\ o = "ok"
         THEN [run[r] EXCEPT !.pc = "update", !.mode = Mode0755,
                             !.calls = Append(@, "chmod")]
         ELSE Throw(r, "PermissionSetFailed", "chmod")]
  /\ UNCHANGED <<hostOS, hostArch, env, fs, vHash, vExpected, vOutcome,
               pth, act>>

\* A runAquaUpdate that does not look at the exit code: only a process that
\* cannot be spawned is an error.
UpdateIgnoresExit(r) ==
  /\ run[r].pc = "update"
  /\ \E o \in ExitOutcomes :
       LET invoked == [run[r] EXCEPT
                         !.updateTarget = run[r].aquaBinaryPath,
                         !.updateExit = o,
                         !.updateArgs = UpdateArgs(run[r].version)]
       IN IF o # "spawnfail"
          THEN /\ run' = [run EXCEPT ![r] =
                    [invoked EXCEPT !.pc = "version",
                                    !.calls = Append(@, "update")]]
               /\ fs' = IF o = "ok" THEN fs \cup {run[r].installPath} ELSE fs
          ELSE /\ run' = [run EXCEPT ![r] =
                    [invoked EXCEPT !.pc = "cleanup",
                                    !.pending = "SelfUpdateFailed",
                                    !.calls = Append(@, "update")]]
               /\ fs' = fs
  /\ UNCHANGED <<hostOS, hostArch, env, vHash, vExpected, vOutcome,
               pth, act>>

\* runAquaUpdate(aquaBinaryPath, options.version).  exec.exec rejects when
\* the process cannot be spawned or exits non-zero; the deno implementation
\* tests output.success.  A successful self-update puts the binary at the
\* install path.
Update(r) ==
  /\ run[r].pc = "update"
  /\ \E o \in ExitOutcomes :
       LET invoked == [run[r] EXCEPT
                         !.updateTarget = run[r].aquaBinaryPath,
                         !.updateExit = o,
                         !.updateArgs = UpdateArgs(run[r].version)]
       IN IF o = "ok"
          THEN /\ run' = [run EXCEPT ![r] =
                    [invoked EXCEPT !.pc = "version",
                                    !.calls = Append(@, "update")]]
               /\ fs' = fs \cup {run[r].installPath}
          ELSE /\ run' = [run EXCEPT ![r] =
                    [invoked EXCEPT !.pc = "cleanup",
                                    !.pending = "SelfUpdateFailed",
                                    !.calls = Append(@, "update")]]
               /\ fs' = fs
  /\ UNCHANGED <<hostOS, hostArch, env, vHash, vExpected, vOutcome,
               pth, act>>

\* Whether the version query makes install() throw.  node: exec.exec rejects
\* on a spawn failure and on a non-zero exit code.  deno: command.output()
\* rejects on a spawn failure only; the exit code is not looked at.
VersionQueryThrows(impl, o) ==
  IF impl = "node" THEN o # "ok" ELSE o = "spawnfail"

\* A version query of the extracted binary instead of the installed one.
VersionOfExtracted(r) ==
  /\ run[r].pc = "version"
  /\ \E o \in ExitOutcomes :
       run' = [run EXCEPT ![r] =
         [run[r] EXCEPT
            !.pc = "cleanup",
            !.reported = run[r].installPath,
            !.versionTarget = run[r].aquaBinaryPath,
            !.versionExit = o,
            !.pending = IF VersionQueryThrows(run[r].impl, o)
                        THEN "VersionQueryFailed" ELSE "",
            !.calls = Append(@, "version")]]
  /\ UNCHANGED <<hostOS, hostArch, env, fs, vHash, vExpected, vOutcome,
               pth, act>>

\* The report of the install path, then `<installPath> -v`.
Version(r) ==
  /\ run[r].pc = "version"
  /\ \E o \in ExitOutcomes :
       run' = [run EXCEPT ![r] =
         [run[r] EXCEPT
            !.pc = "cleanup",
            !.reported = run[r].installPath,
            !.versionTarget = run[r].installPath,
            !.versionExit = o,
            !.pending = IF VersionQueryThrows(run[r].impl, o)
                        THEN "VersionQueryFailed" ELSE "",
            !.calls = Append(@, "version")]]
  /\ UNCHANGED <<hostOS, hostArch, env, fs, vHash, vExpected, vOutcome,
               pth, act>>

\* The removal as the last statement of the try block instead of a finally
\* block: a stage error skips it.
CleanupOnSuccessOnly(r) ==
  /\ run[r].pc = "cleanup"
  /\ \E o \in Outcomes :
       LET skipped == run[r].pending # "" IN
       /\ fs' = IF o = "ok" /\ ~skipped
                THEN RemoveTree(fs, run[r].tempDir) ELSE fs
       /\ run' = [run EXCEPT ![r].pc = "done",
                             ![r].rmExit = IF skipped THEN "" ELSE o,
                             ![r].result = IF skipped THEN run[r].pending
                                           ELSE IF o = "ok" THEN "ok"
                                           ELSE "CleanupFailed",
                             ![r].calls = IF skipped THEN @
                                          ELSE Append(@, "rm")]
  /\ UNCHANGED <<hostOS, hostArch, env, vHash, vExpected, vOutcome,
               pth, act>>

\* What install() ends with after the finally block: an error thrown by the
\* finally block replaces the one that was being propagated.
Propagated(pending, removalThrew) ==
  IF removalThrew THEN "CleanupFailed"
  ELSE IF pending = "" THEN "ok" ELSE pending

\* Whether the removal throws.  node: rm with force: true does not mind a
\* directory that is not there.  deno: Deno.remove throws NotFound then.
RemovalThrows(impl, o, exists) ==
  o = "fail" \/ (impl = "deno" /\ ~exists)

\* The finally block: rm(tempDir, {recursive: true, force: true}) /
\* Deno.remove(tempDir, {recursive: true}).
Cleanup(r) ==
  /\ run[r].pc = "cleanup"
  /\ \E o \in Outcomes :
       LET threw == RemovalThrows(run[r].impl, o, run[r].tempDir \in fs) IN
       /\ fs' = IF threw THEN fs ELSE RemoveTree(fs, run[r].tempDir)
       /\ run' = [run EXCEPT ![r].pc = "done",
                             ![r].rmExit = IF threw THEN "fail" ELSE "ok",
                             ![r].result = Propagated(run[r].pending, threw),
                             ![r].calls = Append(@, "rm")]
  /\ UNCHANGED <<hostOS, hostArch, env, vHash, vExpected, vOutcome,
               pth, act>>

Next ==
  \E r \in Runs :
    \/ Resolve(r)
    \/ MakeTempDir(r)
    \/ Download(r)
    \/ Verify(r)
    \/ Extract(r)
    \/ Chmod(r)
    \/ Update(r)
    \/ Version(r)
    \/ Cleanup(r)

Spec == Init /\ [][Next]_vars

(***************************************************************************)
(* Two install() calls that are not awaited one after the other: their     *)
(* steps interleave at every await.                                        *)
(***************************************************************************)
InitConcurrent ==
  /\ hostOS \in {"linux", "windows"}
  /\ hostArch = "x86_64"
  /\ env = [AQUA_ROOT_DIR |-> << >>, XDG_DATA_HOME |-> << >>,
            HOME |-> HomeDir]
  /\ fs = InitialFs
  /\ run = [r \in Runs |-> IdleRun]
  /\ vHash = << >>
  /\ vExpected = << >>
  /\ vOutcome = "idle"
  /\ pth = IdlePath
  /\ act = IdleAct

NextConcurrent ==
  \E r \in Runs :
    \/ Start(r)
    \/ MakeTempDir(r)
    \/ Download(r)
    \/ Verify(r)
    \/ Extract(r)
    \/ Chmod(r)
    \/ Update(r)
    \/ Version(r)
    \/ Cleanup(r)

SpecConcurrent == InitConcurrent /\ [][NextConcurrent]_vars

(***************************************************************************)
(* getInstallPath on its own: every canonical os in every environment.     *)
(* HOME is unset where the platform does not define it (Windows defines    *)
(* USERPROFILE); homedir() of node:os does not need it.                    *)
(***************************************************************************)
PathEnvs ==
  [AQUA_ROOT_DIR : {<< >>, <<"opt", "aqua">>, <<"srv", "root">>},
   XDG_DATA_HOME : {<< >>, <<"data">>, <<"home", "u", "xdg">>},
   HOME : {<< >>, HomeDir}]

InitPath ==
  /\ hostOS = "linux"
  /\ hostArch = "x86_64"
  /\ env \in PathEnvs
  /\ fs = InitialFs
  /\ run = [r \in Runs |-> IdleRun]
  /\ vHash = << >>
  /\ vExpected = << >>
  /\ vOutcome = "idle"
  /\ pth = IdlePath
  /\ act = IdleAct

\* getInstallPath(os) of either implementation.
GetInstallPathStep ==
  /\ pth = IdlePath
  /\ \E i \in Impls, os \in {"darwin", "linux", "windows"} :
       pth' = [impl |-> i, os |-> os, path |-> getInstallPath(i, os, env)]
  /\ UNCHANGED <<hostOS, hostArch, env, fs, run, vHash, vExpected, vOutcome,
               act>>

NextPath == GetInstallPathStep

SpecPath == InitPath /\ [][NextPath]_vars

(***************************************************************************)
(* The orchestration: action(inputs) of src/action.ts ("action") and run() *)
(* of src/index.ts ("run"), which call install() of src/main.ts.  An input *)
(* that is not given is "".  act.log is what was called, in order.         *)
(***************************************************************************)
Variants == {"action", "run"}
PolicyInputs == {"", "true", "aqua-policy.yaml"}
EnableInputs == {"", "true", "false"}

\* inputs.enableAquaInstall ?? true in action();
\* getInput("enable_aqua_install") === "true" in run().
Enabled(variant, input) ==
  IF variant = "action" THEN input # "false" ELSE input = "true"

\* The directory added to PATH.
BinPath(h, e) ==
  LET isWindows == RuntimeOS("node", h) = "win32"
      aquaRoot == e.AQUA_ROOT_DIR
  IN IF isWindows
     THEN LET base == IF aquaRoot # << >> THEN aquaRoot
                      ELSE join(homedir("node", e),
                                <<"AppData", "Local", "aquaproj-aqua">>)
          IN join(base, <<"bin">>)
     ELSE LET xdgDataHome == IF e.XDG_DATA_HOME # << >> THEN e.XDG_DATA_HOME
                             ELSE join(homedir("node", e),
                                       <<".local", "share">>)
              base == IF aquaRoot # << >> THEN aquaRoot
                      ELSE join(xdgDataHome, <<"aquaproj-aqua">>)
          IN join(base, <<"bin">>)

InitAction ==
  /\ hostOS \in {"linux", "windows", "freebsd"}
  /\ hostArch = "x86_64"
  /\ env \in Envs
  /\ fs = InitialFs
  /\ run = [r \in Runs |-> IdleRun]
  /\ vHash = << >>
  /\ vExpected = << >>
  /\ vOutcome = "idle"
  /\ pth = IdlePath
  /\ \E va \in Variants, v \in Versions, s \in BOOLEAN,
        p \in PolicyInputs, en \in EnableInputs :
       act = [IdleAct EXCEPT !.variant = va, !.version = v,
                             !.skipInstallAqua = s, !.policyAllow = p,
                             !.enableAquaInstall = en]

\* An error leaves action() for its caller; run() catches it and calls
\* core.setFailed.
Fail(err) ==
  [act EXCEPT !.pc = "done", !.error = err,
              !.result = IF act.variant = "action" THEN "threw"
                         ELSE "failed"]

\* The version check and core.addPath(binPath).  With no version, action()
\* calls setFailed and returns; in run() getInput(..., {required: true})
\* throws, which the catch turns into setFailed.
Begin ==
  /\ act.pc = "idle"
  /\ act' = IF act.version = ""
            THEN [act EXCEPT !.pc = "done", !.result = "failed",
                             !.error = "VersionRequired"]
            ELSE [act EXCEPT !.binPath = BinPath(hostOS, env),
                             !.log = Append(@, "addPath"),
                             !.pc = IF act.skipInstallAqua THEN "probe"
                                    ELSE "install"]
  /\ UNCHANGED <<hostOS, hostArch, env, fs, run, vHash, vExpected, vOutcome,
               pth>>

\* A probe whose outcome is not looked at.
ProbeIgnored ==
  /\ act.pc = "probe"
  /\ \E o \in ExitOutcomes :
       act' = [act EXCEPT !.log = Append(@, "probe"), !.probeExit = o,
                          !.pc = "install"]
  /\ UNCHANGED <<hostOS, hostArch, env, fs, run, vHash, vExpected, vOutcome,
               pth>>

\* exec.exec("aqua", ["--version"]) in a try block: it rejects when the
\* command cannot be run or exits non-zero, and the catch installs.
Probe ==
  /\ act.pc = "probe"
  /\ \E o \in ExitOutcomes :
       act' = [act EXCEPT !.log = Append(@, "probe"), !.probeExit = o,
                          !.pc = IF o = "ok" THEN "policy" ELSE "install"]
  /\ UNCHANGED <<hostOS, hostArch, env, fs, run, vHash, vExpected, vOutcome,
               pth>>

\* await install({version: inputs.version}): the call.
CallInstall ==
  /\ act.pc = "install"
  /\ run[1].pc = "idle"
  /\ run' = [run EXCEPT ![1] = Resolved(1, "node", act.version)]
  /\ act' = [act EXCEPT !.log = Append(@, "install"), !.pc = "installing"]
  /\ UNCHANGED <<hostOS, hostArch, env, fs, vHash, vExpected, vOutcome,
               pth>>

\* await install(...): install() has returned or thrown.
InstallReturns ==
  /\ act.pc = "installing"
  /\ run[1].pc = "done"
  /\ act' = IF run[1].result = "ok" THEN [act EXCEPT !.pc = "policy"]
            ELSE Fail(run[1].result)
  /\ UNCHANGED <<hostOS, hostArch, env, fs, run, vHash, vExpected, vOutcome,
               pth>>

\* `aqua policy allow [file]` when the policyAllow input is given.
PolicyAllow ==
  /\ act.pc = "policy"
  /\ IF act.policyAllow = ""
     THEN act' = [act EXCEPT !.pc = "aquai"]
     ELSE \E o \in ExitOutcomes :
            LET called == [act EXCEPT
                  !.log = Append(@, "policy"),
                  !.policyArgs = <<"policy", "allow">> \o
                     (IF act.policyAllow # "true" THEN <<act.policyAllow>>
                      ELSE << >>),
                  !.policyExit = o]
            IN act' = IF o = "ok" THEN [called EXCEPT !.pc = "aquai"]
                      ELSE [called EXCEPT
                              !.pc = "done", !.error = "PolicyAllowFailed",
                              !.result = IF act.variant = "action"
                                         THEN "threw" ELSE "failed"]
  /\ UNCHANGED <<hostOS, hostArch, env, fs, run, vHash, vExpected, vOutcome,
               pth>>

\* `aqua i` is started when it is enabled, in action() after
\* core.startGroup("aqua install").
AquaInstall ==
  /\ act.pc = "aquai"
  /\ act' = IF ~Enabled(act.variant, act.enableAquaInstall)
            THEN [act EXCEPT !.pc = "done", !.result = "ok"]
            ELSE [act EXCEPT
                    !.pc = "running",
                    !.log = @ \o (IF act.variant = "action"
                                  THEN <<"startGroup", "i">> ELSE <<"i">>)]
  /\ UNCHANGED <<hostOS, hostArch, env, fs, run, vHash, vExpected, vOutcome,
               pth>>

\* An `aqua i` whose group is closed only when the command succeeds.
AquaInstallExitsNoFinally ==
  /\ act.pc = "running"
  /\ \E o \in ExitOutcomes :
       act' = [act EXCEPT
                 !.pc = "done", !.installExit = o,
                 !.log = IF act.variant = "action" /\ o = "ok"
                         THEN Append(@, "endGroup") ELSE @,
                 !.error = IF o = "ok" THEN "" ELSE "AquaInstallFailed",
                 !.result = IF o = "ok" THEN "ok"
                            ELSE IF act.variant = "action" THEN "threw"
                            ELSE "failed"]
  /\ UNCHANGED <<hostOS, hostArch, env, fs, run, vHash, vExpected, vOutcome,
               pth>>

\* `aqua i` ends; in action() the finally block calls core.endGroup().
AquaInstallExits ==
  /\ act.pc = "running"
  /\ \E o \in ExitOutcomes :
       act' = [act EXCEPT
                 !.pc = "done", !.installExit = o,
                 !.log = IF act.variant = "action"
                         THEN Append(@, "endGroup") ELSE @,
                 !.error = IF o = "ok" THEN "" ELSE "AquaInstallFailed",
                 !.result = IF o = "ok" THEN "ok"
                            ELSE IF act.variant = "action" THEN "threw"
                            ELSE "failed"]
  /\ UNCHANGED <<hostOS, hostArch, env, fs, run, vHash, vExpected, vOutcome,
               pth>>

NextAction ==
  \/ Begin
  \/ Probe
  \/ CallInstall
  \/ InstallReturns
  \/ PolicyAllow
  \/ AquaInstall
  \/ AquaInstallExits
  \/ MakeTempDir(1)
  \/ Download(1)
  \/ Verify(1)
  \/ Extract(1)
  \/ Chmod(1)
  \/ Update(1)
  \/ Version(1)
  \/ Cleanup(1)

SpecAction == InitAction /\ [][NextAction]_vars

(***************************************************************************)
(* verifyChecksum on its own: every file hash against every expected       *)
(* digest.                                                                 *)
(***************************************************************************)
\* The byte values a hash is made of, and the characters of an expected
\* digest.
HashBytes == {0, 10, 160, 171, 186, 187}
ExpectedChars == {"0", "a", "b", "A", "B"}

SeqsOfLen(S, n) == [1..n -> S]

InitVerify ==
  /\ hostOS = "linux"
  /\ hostArch = "x86_64"
  /\ env = [AQUA_ROOT_DIR |-> << >>, XDG_DATA_HOME |-> << >>,
            HOME |-> HomeDir]
  /\ fs = InitialFs
  /\ run = [r \in Runs |-> IdleRun]
  /\ vHash \in SeqsOfLen(HashBytes, DigestBytes)
  /\ vExpected \in SeqsOfLen(ExpectedChars, 2 * DigestBytes)
  /\ vOutcome = "none"
  /\ pth = IdlePath
  /\ act = IdleAct

\* verifyChecksum(filePath, expectedChecksum) on a file whose SHA-256 is
\* vHash: hashHex is computed, compared, and the function returns or throws.
VerifyChecksumStep ==
  /\ vOutcome = "none"
  /\ vOutcome' = IF ChecksumMatches(HexOf(vHash), vExpected)
                 THEN "ok" ELSE "ChecksumMismatch"
  /\ UNCHANGED <<hostOS, hostArch, env, fs, run, vHash, vExpected, pth, act>>

NextVerify == VerifyChecksumStep

SpecVerify == InitVerify /\ [][NextVerify]_vars

(***************************************************************************)
(* Properties.                                                             *)
(***************************************************************************)
Done(r) == run[r].pc = "done"
Called(r, c) == \E i \in 1..Len(run[r].calls) : run[r].calls[i] = c
AfterVerify == {"extract", "chmod", "update", "version"}

\* C1: the extractor, chmod, the self-update and the version query are
\* invoked only after verifyChecksum was invoked on a downloaded file whose
\* digest equals the expected digest; when the digests differ or the download
\* failed, install() ends with an error and none of them was invoked.
VerifiedBeforeUse ==
  \A r \in Runs :
    LET c == run[r].calls IN
    /\ \A i \in 1..Len(c) :
         c[i] \in AfterVerify =>
           /\ \E j \in 1..(i - 1) : c[j] = "verify"
           /\ run[r].downloadPath # << >>
           /\ run[r].content.digest = run[r].expectedChecksum
    /\ run[r].updateTarget # << >> =>
         run[r].content.digest = run[r].expectedChecksum
    /\ (Done(r) /\ Called(r, "download")
          /\ run[r].content.digest # run[r].expectedChecksum) =>
         /\ run[r].result \notin {"", "ok"}
         /\ \A i \in 1..Len(c) : c[i] \notin AfterVerify
         /\ run[r].extracted = {}

\* C1 witness: an install() that downloaded a file of another digest ended
\* with the checksum error.
MismatchEnded ==
  \E r \in Runs :
    /\ Done(r)
    /\ run[r].content.digest = TamperedDigest
    /\ run[r].result = "ChecksumMismatch"

\* install() number r, which had created its workspace, returns or
\* propagates its error in this step.
Returns(r) ==
  /\ run[r].pc # "done"
  /\ run'[r].pc = "done"
  /\ run'[r].tempDir # << >>

\* C2 as stated: when install() returns or propagates its error after
\* creating its workspace, the workspace directory does not exist.
WorkspaceGoneAtReturn ==
  [][\A r \in Runs : Returns(r) => run'[r].tempDir \notin fs']_vars

\* C2 as amended: when install() returns or propagates its error after
\* creating its workspace, the removal of the workspace was attempted exactly
\* once, as the last operation; the directory and everything below it do not
\* exist unless that removal itself failed.
WorkspaceRemovalAttempted ==
  [][\A r \in Runs :
       Returns(r) =>
         LET c == run'[r].calls IN
         /\ c[Len(c)] = "rm"
         /\ Cardinality({i \in 1..Len(c) : c[i] = "rm"}) = 1
         /\ (\E p \in fs' : IsPrefix(run'[r].tempDir, p)) =>
              run'[r].rmExit = "fail"]_vars

\* C2 witness: a stage failed and the workspace is gone at the end.
FailedAndRemoved ==
  \E r \in Runs :
    /\ Done(r)
    /\ run[r].result = "SelfUpdateFailed"
    /\ run[r].tempDir # << >>
    /\ run[r].tempDir \notin fs

\* C3: when the self-update succeeded and the version query failed (not
\* spawned, or a non-zero exit), install() does not end with the version
\* query's error.
VersionQueryNeverFatal ==
  \A r \in Runs :
    (Done(r) /\ run[r].updateExit = "ok"
       /\ run[r].versionExit \in {"nonzero", "spawnfail"}) =>
      run[r].result # "VersionQueryFailed"

\* C4: when a stage failed with an error, install() ends with that error,
\* also when the removal of the workspace failed.
StageErrorPropagated ==
  \A r \in Runs :
    (Done(r) /\ run[r].pending # "") => run[r].result = run[r].pending

\* C5: every path the extraction of a tar+gzip archive writes lies inside
\* the destination directory.
TarWritesInsideDest ==
  \A r \in Runs :
    run[r].os # "windows" =>
      \A p \in run[r].extracted : Inside(run[r].tempDir, p)

\* C6: the downloaded archive lies inside the workspace of its install(),
\* and it no longer exists once install() has ended with the workspace
\* removed.
DownloadInsideWorkspace ==
  \A r \in Runs :
    run[r].downloadPath # << >> =>
      /\ Inside(run[r].tempDir, run[r].downloadPath)
      /\ (Done(r) /\ run[r].tempDir \notin fs) => run[r].downloadPath \notin fs

SupportedHostOSs == {"macos", "linux", "windows"}
SupportedHostArchs == {"x86_64", "arm64"}

\* C7: on a machine whose operating system or CPU is not supported, an
\* install() that was called has ended with the unsupported-platform error,
\* without a workspace, an operation, a written file or a change of the file
\* system.
UnsupportedFailsFirst ==
  (hostOS \notin SupportedHostOSs \/ hostArch \notin SupportedHostArchs) =>
    /\ fs = InitialFs
    /\ \A r \in Runs :
         run[r].pc # "idle" =>
           /\ Done(r)
           /\ run[r].result = "UnsupportedPlatform"
           /\ run[r].tempDir = << >>
           /\ run[r].calls = << >>
           /\ run[r].wrote = {}

\* C7 witness: install() has ended with the error on an unsupported system.
UnsupportedEnded ==
  \E r \in Runs :
    /\ hostOS = "freebsd"
    /\ Done(r)
    /\ run[r].result = "UnsupportedPlatform"

LowerChar(c) ==
  CASE c = "A" -> "a" [] c = "B" -> "b" [] c = "C" -> "c"
    [] c = "D" -> "d" [] c = "E" -> "e" [] c = "F" -> "f"
    [] OTHER -> c
Lower(str) == [i \in 1..Len(str) |-> LowerChar(str[i])]

\* C8: verifyChecksum returns exactly when the hex digest of the file and
\* the expected digest are equal up to letter case.
VerifyIsCaseInsensitive ==
  vOutcome \in {"ok", "ChecksumMismatch"} =>
    (vOutcome = "ok" <=> Lower(HexOf(vHash)) = Lower(vExpected))

\* C9: two install() calls on the same machine have the same url, the same
\* filename and the same expected digest, whatever version each was given;
\* the version is the second argument of the self-update and nothing else.
LocatorIgnoresVersion ==
  /\ \A r1, r2 \in Runs :
       (run[r1].filename # "" /\ run[r2].filename # "") =>
         /\ run[r1].url = run[r2].url
         /\ run[r1].filename = run[r2].filename
         /\ run[r1].expectedChecksum = run[r2].expectedChecksum
  /\ \A r \in Runs :
       run[r].updateArgs # << >> =>
         /\ run[r].updateArgs[1] = "update-aqua"
         /\ Len(run[r].updateArgs) = (IF run[r].version = "" THEN 1 ELSE 2)
         /\ run[r].version # "" => run[r].updateArgs[2] = run[r].version

\* C9 witness: two calls with different versions both ran their self-update.
TwoVersionsUpdated ==
  \E r1, r2 \in Runs :
    /\ run[r1].version # run[r2].version
    /\ run[r1].updateArgs # << >>
    /\ run[r2].updateArgs # << >>
    /\ run[r1].url # ""
    /\ run[r2].url # ""

CanonicalOSs == {"darwin", "linux", "windows"}
CanonicalArchs == {"amd64", "arm64"}

\* C10: the filename of every supported (os, arch) pair is a key of the
\* checksum table, every key is the filename of a supported pair, and no
\* install() on a resolved platform ends without a checksum.
TableMatchesPlatforms ==
  /\ \A os \in CanonicalOSs, arch \in CanonicalArchs :
       Filename(os, arch) \in DOMAIN CHECKSUMS
  /\ \A k \in DOMAIN CHECKSUMS :
       \E os \in CanonicalOSs, arch \in CanonicalArchs : Filename(os, arch) = k
  /\ \A r \in Runs :
       (run[r].os # "" /\ run[r].arch # "") =>
         /\ run[r].os \in CanonicalOSs
         /\ run[r].arch \in CanonicalArchs
         /\ run[r].filename \in DOMAIN CHECKSUMS
         /\ run[r].expectedChecksum = CHECKSUMS[run[r].filename]
         /\ run[r].result # "NoChecksum"

\* C10 witness: the windows/arm64 artifact was located and is being
\* installed.
WindowsArmLocated ==
  \E r \in Runs :
    /\ run[r].filename = "aqua_windows_arm64.zip"
    /\ run[r].expectedChecksum # ""
    /\ run[r].tempDir # << >>

\* C11: when the self-update exits non-zero, install() ends with the
\* self-update's error, and neither the report of the install path nor the
\* version query was performed.
SelfUpdateErrorReachesCaller ==
  \A r \in Runs :
    run[r].updateExit = "nonzero" =>
      /\ run[r].reported = << >>
      /\ run[r].versionTarget = << >>
      /\ ~Called(r, "version")
      /\ Done(r) => run[r].result = "SelfUpdateFailed"

\* C14: the version query is invoked on the install path, which is not the
\* extracted binary and not in the workspace, and only after the self-update
\* exited with success; the self-update is invoked on the extracted binary
\* in the workspace, which is not the install path.
QueryInstalledUpdateExtracted ==
  \A r \in Runs :
    /\ run[r].versionTarget # << >> =>
         /\ run[r].versionTarget = getInstallPath(run[r].impl, run[r].os, env)
         /\ run[r].versionTarget # run[r].aquaBinaryPath
         /\ ~IsPrefix(run[r].tempDir, run[r].versionTarget)
         /\ run[r].updateExit = "ok"
         /\ \E i, j \in 1..Len(run[r].calls) :
              i < j /\ run[r].calls[i] = "update" /\ run[r].calls[j] = "version"
    /\ run[r].updateTarget # << >> =>
         /\ run[r].updateTarget =
              run[r].tempDir \o <<BinaryName(run[r].os = "windows")>>
         /\ run[r].updateTarget \in run[r].extracted
         /\ run[r].updateTarget # run[r].installPath

\* C14 witness: both invocations were made on a windows machine.
BothInvokedOnWindows ==
  \E r \in Runs :
    /\ run[r].os = "windows"
    /\ run[r].updateTarget # << >>
    /\ run[r].versionTarget # << >>

StageOrder ==
  <<"mkdtemp", "download", "verify", "extract", "chmod", "update", "version">>
StagesOf(r) == SelectSeq(run[r].calls, LAMBDA c : c # "rm")

\* The stage an error comes from.
StageOfError(err) ==
  CASE err = "DownloadFailed" -> "download"
    [] err \in {"ChecksumMismatch", "ReadFailed"} -> "verify"
    [] err = "ExtractionFailed" -> "extract"
    [] err = "PermissionSetFailed" -> "chmod"
    [] err = "SelfUpdateFailed" -> "update"
    [] err = "VersionQueryFailed" -> "version"
    [] OTHER -> ""

\* C15: the stages of one install() are a prefix of the fixed order, each at
\* most once, after the platform and the artifact were resolved; a stage is
\* started only when the one before it succeeded (the binary has mode 0755
\* when the self-update starts), and a stage that failed is the last one.
FixedStageOrder ==
  \A r \in Runs :
    LET s == StagesOf(r) IN
    /\ Len(s) <= Len(StageOrder)
    /\ \A i \in 1..Len(s) : s[i] = StageOrder[i]
    /\ \A i \in 1..Len(run[r].calls) :
         run[r].calls[i] = "rm" => (i = Len(run[r].calls) /\ Done(r))
    /\ s # << >> =>
         /\ run[r].os \in CanonicalOSs
         /\ run[r].arch \in CanonicalArchs
         /\ run[r].filename = Filename(run[r].os, run[r].arch)
         /\ run[r].expectedChecksum # ""
    /\ Called(r, "download") => run[r].tempDir # << >>
    /\ Called(r, "verify") => run[r].downloadPath # << >>
    /\ Called(r, "extract") =>
         run[r].content.digest = run[r].expectedChecksum
    /\ Called(r, "chmod") => run[r].aquaBinaryPath # << >>
    /\ Called(r, "update") =>
         (run[r].mode = Mode0755 /\ run[r].aquaBinaryPath \in run[r].extracted)
    /\ Called(r, "version") => run[r].updateExit = "ok"
    /\ run[r].pending # "" =>
         /\ run[r].pc \in {"cleanup", "done"}
         /\ s[Len(s)] = StageOfError(run[r].pending)

\* C15 witness: an install() ran every stage and ended.
AllStagesRan ==
  \E r \in Runs :
    /\ Done(r)
    /\ run[r].calls = StageOrder \o <<"rm">>
    /\ run[r].result = "ok"

\* C16: when the extraction returned and the binary is not among the
\* extracted files, the self-update is not invoked and install() does not
\* end with success.
MissingBinaryFails ==
  \A r \in Runs :
    (Called(r, "chmod")
       /\ run[r].tempDir \o <<BinaryName(run[r].os = "windows")>>
            \notin run[r].extracted) =>
      /\ run[r].updateTarget = << >>
      /\ ~Called(r, "update")
      /\ run[r].pc \in {"cleanup", "done"}
      /\ Done(r) => run[r].result \notin {"", "ok"}

\* C16 witness: an archive without the binary was extracted and install()
\* has ended with an error.
NoBinaryEnded ==
  \E r \in Runs :
    /\ Done(r)
    /\ run[r].content.archive = "nobinary"
    /\ Called(r, "chmod")
    /\ run[r].result = "PermissionSetFailed"

\* The outcomes of the stages of an install(), as far as it went.
StageOutcomes(r) ==
  [download |-> run[r].downloadPath # << >>,
   digest |-> run[r].content.digest = run[r].expectedChecksum,
   extract |-> Called(r, "chmod"),
   chmod |-> run[r].mode = Mode0755,
   update |-> run[r].updateExit,
   version |-> run[r].versionExit,
   rm |-> run[r].rmExit]

\* C17: an install() of each implementation, both ended after creating their
\* workspace with the same stage outcomes, ran the same stages and ended the
\* same way.
ImplementationsAgree ==
  \A r1, r2 \in Runs :
    (/\ Done(r1) /\ Done(r2)
     /\ run[r1].impl = "node" /\ run[r2].impl = "deno"
     /\ run[r1].tempDir # << >> /\ run[r2].tempDir # << >>
     /\ StageOutcomes(r1) = StageOutcomes(r2)) =>
      /\ run[r1].calls = run[r2].calls
      /\ run[r1].result = run[r2].result

\* An install() that has its workspace and has not returned.
Live(r) == run[r].tempDir # << >> /\ ~Done(r)

\* The files an install() still has to read or execute.
NeededFiles(r) ==
  CASE run[r].pc \in {"verify", "extract"} -> {run[r].downloadPath}
    [] run[r].pc = "update" -> {run[r].aquaBinaryPath}
    [] OTHER -> {}

\* C12: two install() calls whose steps interleave have distinct workspaces,
\* neither inside the other, and distinct download files; and whatever the
\* other call has removed, the workspace of a call that has not reached its
\* own removal exists, with the files the call still has to verify, extract
\* or execute.
WorkspacesIsolated ==
  /\ \A r1, r2 \in Runs :
       (r1 # r2 /\ Live(r1) /\ Live(r2)) =>
         /\ run[r1].tempDir # run[r2].tempDir
         /\ ~IsPrefix(run[r1].tempDir, run[r2].tempDir)
         /\ (run[r1].downloadPath # << >> =>
               /\ run[r1].downloadPath # run[r2].downloadPath
               /\ ~IsPrefix(run[r2].tempDir, run[r1].downloadPath))
  /\ \A r \in Runs :
       /\ NeededFiles(r) \subseteq fs
       /\ run[r].pc \in {"download", "verify", "extract", "chmod", "update",
                         "version"} => run[r].tempDir \in fs

\* C12 witness: two calls of the deno implementation had their workspaces at
\* the same time, one has removed its own and returned, and the other is
\* about to run the binary it extracted.
OneRemovedOtherRunning ==
  \E r1, r2 \in Runs :
    /\ run[r1].impl = "deno" /\ run[r2].impl = "deno"
    /\ Done(r1) /\ run[r1].rmExit = "ok"
    /\ run[r1].tempDir # << >> /\ run[r2].tempDir # << >>
    /\ run[r1].tempDir # run[r2].tempDir
    /\ run[r2].pc = "update"

\* The root the install path is documented to be under.
DocumentedRoot(os, e) ==
  IF e.AQUA_ROOT_DIR # << >> THEN e.AQUA_ROOT_DIR
  ELSE IF os = "windows"
  THEN HomeDir \o <<"AppData", "Local", "aquaproj-aqua">>
  ELSE (IF e.XDG_DATA_HOME # << >> THEN e.XDG_DATA_HOME
        ELSE HomeDir \o <<".local", "share">>) \o <<"aquaproj-aqua">>

\* C13: getInstallPath(os) returns <root>/bin/aqua.exe for windows and
\* <root>/bin/aqua for any other os, where <root> is AQUA_ROOT_DIR when it
\* is set, and otherwise <home>/AppData/Local/aquaproj-aqua for windows and
\* <XDG_DATA_HOME or home/.local/share>/aquaproj-aqua for any other os.
InstallPathUnderDocumentedRoot ==
  pth # IdlePath =>
    pth.path = DocumentedRoot(pth.os, env)
                 \o <<"bin", IF pth.os = "windows" THEN "aqua.exe" ELSE "aqua">>

Logged(e) == \E i \in 1..Len(act.log) : act.log[i] = e
Times(e) == Cardinality({i \in 1..Len(act.log) : act.log[i] = e})
Before(a, b) ==
  \E i, j \in 1..Len(act.log) : i < j /\ act.log[i] = a /\ act.log[j] = b

\* C18: action() and run() call install() at most once; with skip-install,
\* install() is called when and only when the probe has failed; without it,
\* install() is called once and there is no probe; the bin directory is
\* added to PATH before anything else is called; and with an empty version
\* nothing is called at all.
InstallAtMostOnce ==
  /\ Times("install") <= 1 /\ Times("probe") <= 1 /\ Times("addPath") <= 1
  /\ Logged("install") <=> run[1].pc # "idle"
  /\ run[2].pc = "idle"
  /\ act.skipInstallAqua =>
       /\ Logged("install") =>
            (Before("probe", "install") /\ act.probeExit \notin {"", "ok"})
       /\ act.probeExit = "ok" => ~Logged("install")
       /\ (act.probeExit \notin {"", "ok"} /\ act.pc # "install") =>
            Logged("install")
  /\ ~act.skipInstallAqua =>
       /\ ~Logged("probe")
       /\ (act.version # "" /\ act.pc \notin {"idle", "install"}) =>
            Logged("install")
  /\ act.log # << >> =>
       (act.log[1] = "addPath" /\ act.binPath = BinPath(hostOS, env))
  /\ (act.version = "" /\ act.pc # "idle") =>
       /\ act.log = << >>
       /\ act.binPath = << >>
       /\ act.pc = "done"
       /\ act.result = "failed"

\* C18 witness: skip-install was requested, the probe failed, install() ran
\* to its end and the orchestration has ended.
ProbeFailedThenInstalled ==
  /\ act.pc = "done"
  /\ act.skipInstallAqua
  /\ act.probeExit = "nonzero"
  /\ Logged("install")
  /\ run[1].result = "ok"

\* install(), or the probe that stands in for it, has completed without an
\* error.
InstalledOrProbed ==
  \/ Logged("install") /\ Done(1) /\ run[1].result = "ok"
     /\ act.pc # "installing"
  \/ ~Logged("install") /\ act.probeExit = "ok"

\* C19: `aqua policy allow` is called only when policyAllow is given and
\* after install() or the probe completed without an error; `aqua i` only
\* when enabled, after that and after a policy allow that succeeded; once a
\* step has failed no later step is called; and in action() every
\* startGroup is followed by an endGroup when `aqua i` has ended, whether it
\* succeeded or not.
FollowUpsInSequence ==
  /\ Logged("policy") =>
       /\ act.policyAllow # ""
       /\ InstalledOrProbed
       /\ Logged("install") => Before("install", "policy")
       /\ Logged("probe") => Before("probe", "policy")
  /\ Logged("i") =>
       /\ Enabled(act.variant, act.enableAquaInstall)
       /\ InstalledOrProbed
       /\ act.policyAllow # "" =>
            (Before("policy", "i") /\ act.policyExit = "ok")
  /\ (Done(1) /\ run[1].result # "ok") =>
       /\ ~Logged("policy") /\ ~Logged("i")
       /\ act.pc \in {"installing", "done"}
       /\ act.pc = "done" => act.result \in {"threw", "failed"}
  /\ act.policyExit \notin {"", "ok"} =>
       (~Logged("i") /\ act.pc = "done" /\ act.result \in {"threw", "failed"})
  /\ act.installExit \notin {"", "ok"} =>
       (act.pc = "done" /\ act.result \in {"threw", "failed"})
  /\ Times("policy") <= 1 /\ Times("i") <= 1
  /\ act.variant = "action" =>
       /\ Times("startGroup") = Times("i")
       /\ \A i \in 1..Len(act.log) :
            act.log[i] = "startGroup" =>
              \/ act.pc = "running"
              \/ \E j \in (i + 1)..Len(act.log) : act.log[j] = "endGroup"

\* C19 witness: in action(), install() and policy allow succeeded, `aqua i`
\* failed, and the group was closed.
GroupClosedAfterFailure ==
  /\ act.variant = "action"
  /\ act.pc = "done"
  /\ Logged("install") /\ act.policyExit = "ok"
  /\ act.installExit = "nonzero"
  /\ act.result = "threw"
  /\ act.log[Len(act.log)] = "endGroup"

=============================================================================
